---- MODULE Spec2Model ----
(***************************************************************************)
(* SolutionExplorerFileSystemRepository: a store of '.bpmn' diagram files  *)
(* below a solution root, with a trash folder for soft deletes.            *)
(*                                                                         *)
(* The sources hold three versions of the class:                           *)
(*   "A"  src/src/SolutionExplorerFileSystemRepository.ts lines 12-182     *)
(*   "B"  src/src/SolutionExplorerFileSystemRepository.ts lines 195-400    *)
(*   "C"  src/unnamed/part_000 lines 12-135                                *)
(* The variable `variant` says which one a behaviour runs.                 *)
(*                                                                         *)
(* Paths, file names and diagram names are sequences of one-character      *)
(* strings, so that join, dirname, basename, endsWith and toLowerCase are  *)
(* computed on the characters, as node's path and String functions do.     *)
(*                                                                         *)
(* One step of the model is one turn of node's event loop: the synchronous *)
(* part of a call together with the microtasks it queues (an `await` of an *)
(* async function that does only synchronous work), up to the point where  *)
(* it waits for the thread pool; or the completion of one request of the   *)
(* thread pool (readdir, readFile, writeFile, rename) together with the    *)
(* continuation it resumes.                                                *)
(***************************************************************************)
EXTENDS Integers, Sequences, FiniteSets, TLC

VARIABLES
    variant,      \* which version of the class runs: "A", "B" or "C"
    trashFolder,  \* this._trashFolderLocation / this._trashFolder
    basePath,     \* this._basePath
    identity,     \* this._identity
    fs,           \* the filesystem: path -> [kind, content]
    calls,        \* slot -> the call made in that slot and how it settled
    pending,      \* requests in flight in the thread pool
    nwrites       \* number of mutating calls made so far

vars == <<variant, trashFolder, basePath, identity, fs, calls, pending, nwrites>>

----------------------------------------------------------------------------
(* Bounds *)

\* Mutating calls (save*, delete, rename) one behaviour makes.
MaxWrites == 2

----------------------------------------------------------------------------
(* Strings *)

BPMN_FILE_SUFFIX == <<".", "b", "p", "m", "n">>

\* The value of a field that was never assigned.
Undefined == <<"undefined">>

Sep == "/"

Lower(c) ==
    CASE c = "A" -> "a"
      [] c = "B" -> "b"
      [] OTHER -> c

\* String.prototype.toLowerCase
toLowerCase(s) == [i \in 1..Len(s) |-> Lower(s[i])]

\* String.prototype.endsWith
endsWith(s, suffix) ==
    /\ Len(suffix) <= Len(s)
    /\ SubSeq(s, Len(s) - Len(suffix) + 1, Len(s)) = suffix

\* file.substr(0, file.length - BPMN_FILE_SUFFIX.length)
substrStrip(file) ==
    IF Len(file) >= Len(BPMN_FILE_SUFFIX)
    THEN SubSeq(file, 1, Len(file) - Len(BPMN_FILE_SUFFIX))
    ELSE <<>>

\* Index of the last separator of p, 0 when it has none.
LastSep(p) ==
    LET idx == {i \in 1..Len(p) : p[i] = Sep}
    IN  IF idx = {} THEN 0 ELSE CHOOSE i \in idx : \A j \in idx : j <= i

\* path.dirname (posix), for paths without a trailing separator
dirname(p) ==
    LET k == LastSep(p)
    IN  IF k = 0 THEN <<".">>
        ELSE IF k = 1 THEN <<Sep>>
        ELSE SubSeq(p, 1, k - 1)

\* path.basename(p, ext) (posix): the last segment, without ext when the
\* segment ends with it; the empty string when the segment is ext itself.
basename(p, ext) ==
    LET seg == SubSeq(p, LastSep(p) + 1, Len(p))
    IN  IF ext # <<>> /\ endsWith(seg, ext)
        THEN SubSeq(seg, 1, Len(seg) - Len(ext))
        ELSE seg

\* path.join(a, b) for normalised, non-empty a and b
join(a, b) == a \o <<Sep>> \o b

Digits == <<"0", "1", "2", "3", "4", "5", "6", "7", "8", "9">>

\* `${n}` for a number n >= 0
RECURSIVE NumStr(_)
NumStr(n) ==
    IF n < 10 THEN <<Digits[n + 1]>>
    ELSE NumStr(n \div 10) \o <<Digits[(n % 10) + 1]>>

\* `${desiredName}.${attempt}`
WithAttempt(name, attempt) == name \o <<".">> \o NumStr(attempt)

----------------------------------------------------------------------------
(* The filesystem (node's fs on a case-sensitive posix filesystem) *)

Dir == [kind |-> "dir", content |-> ""]

File(data) == [kind |-> "file", content |-> data]

\* fs.existsSync(p)
existsSync(f, p) == p \in DOMAIN f

\* fs.statSync(p).isDirectory(), for a p that exists
isDirectory(f, p) == f[p].kind = "dir"

\* q lies below the directory d
IsUnder(q, d) ==
    /\ Len(q) > Len(d) + 1
    /\ SubSeq(q, 1, Len(d)) = d
    /\ q[Len(d) + 1] = Sep

\* The error of an access that needs the directory holding p, "" when there is none
ParentError(f, p) ==
    IF ~existsSync(f, dirname(p)) THEN "ENOENT"
    ELSE IF ~isDirectory(f, dirname(p)) THEN "ENOTDIR"
    ELSE ""

\* fs.readdir(p): the names of the entries directly inside p
FsReaddir(f, p) ==
    IF ~existsSync(f, p) THEN [err |-> "ENOENT", names |-> {}]
    ELSE IF ~isDirectory(f, p) THEN [err |-> "ENOTDIR", names |-> {}]
    ELSE [err |-> "",
          names |-> {basename(q, <<>>) : q \in {x \in DOMAIN f : x # p /\ dirname(x) = p}}]

\* Mutant of FsReadFile: a path that cannot be read is read as an empty file.
FsReadFileLenient(f, p) ==
    IF existsSync(f, p) /\ ~isDirectory(f, p) THEN [err |-> "", data |-> f[p].content]
    ELSE [err |-> "", data |-> ""]

\* fs.readFile(p, 'utf8')
FsReadFile(f, p) ==
    IF ~existsSync(f, p)
    THEN [err |-> IF ParentError(f, p) = "ENOTDIR" THEN "ENOTDIR" ELSE "ENOENT", data |-> ""]
    ELSE IF isDirectory(f, p) THEN [err |-> "EISDIR", data |-> ""]
    ELSE [err |-> "", data |-> f[p].content]

\* Mutant of FsWriteFile: the file is opened with the flag 'wx', which fails
\* when the path exists.
FsWriteFileExclusive(f, p, data) ==
    IF ParentError(f, p) # "" THEN [err |-> ParentError(f, p), fs |-> f]
    ELSE IF p \in DOMAIN f THEN [err |-> "EEXIST", fs |-> f]
    ELSE [err |-> "", fs |-> (p :> File(data)) @@ f]

\* fs.writeFile(p, data): creates or truncates p; never creates a directory
FsWriteFile(f, p, data) ==
    IF ParentError(f, p) # "" THEN [err |-> ParentError(f, p), fs |-> f]
    ELSE IF existsSync(f, p) /\ isDirectory(f, p) THEN [err |-> "EISDIR", fs |-> f]
    ELSE [err |-> "",
          fs |-> [q \in DOMAIN f \cup {p} |-> IF q = p THEN File(data) ELSE f[q]]]

\* Where the entry q ends up when old is renamed to new
Moved(q, old, new) ==
    IF q = old THEN new
    ELSE IF IsUnder(q, old) THEN new \o SubSeq(q, Len(old) + 1, Len(q))
    ELSE q

\* Mutant of FsRename: a rename that refuses to replace an existing new
\* (renameat2 with RENAME_NOREPLACE); it moves single files only.
FsRenameNoReplace(f, old, new) ==
    IF ~existsSync(f, old) THEN [err |-> "ENOENT", fs |-> f]
    ELSE IF ParentError(f, new) # "" THEN [err |-> ParentError(f, new), fs |-> f]
    ELSE IF existsSync(f, new) \/ isDirectory(f, old) THEN [err |-> "EEXIST", fs |-> f]
    ELSE [err |-> "",
          fs |-> [q \in (DOMAIN f \ {old}) \cup {new} |-> IF q = new THEN f[old] ELSE f[q]]]

\* fs.rename(old, new) (rename(2)): replaces an existing new
FsRename(f, old, new) ==
    IF ~existsSync(f, old) THEN [err |-> "ENOENT", fs |-> f]
    ELSE IF ParentError(f, new) # "" THEN [err |-> ParentError(f, new), fs |-> f]
    ELSE IF old = new THEN [err |-> "", fs |-> f]
    ELSE IF IsUnder(new, old) THEN [err |-> "EINVAL", fs |-> f]
    ELSE IF existsSync(f, new) /\ ~isDirectory(f, old) /\ isDirectory(f, new)
    THEN [err |-> "EISDIR", fs |-> f]
    ELSE IF existsSync(f, new) /\ isDirectory(f, old) /\ ~isDirectory(f, new)
    THEN [err |-> "ENOTDIR", fs |-> f]
    ELSE IF existsSync(f, new) /\ isDirectory(f, new) /\ \E q \in DOMAIN f : IsUnder(q, new)
    THEN [err |-> "ENOTEMPTY", fs |-> f]
    ELSE LET gone == {q \in DOMAIN f : q = old \/ IsUnder(q, old)}
             kept == (DOMAIN f \ gone) \ {new}
             came == {Moved(q, old, new) : q \in gone}
             From(n) == CHOOSE q \in gone : Moved(q, old, new) = n
         IN  [err |-> "",
              fs |-> [q \in kept \cup came |-> IF q \in came THEN f[From(q)] ELSE f[q]]]

----------------------------------------------------------------------------
(* The values the model draws its inputs from *)

RootR == <<"r">>

RootS == <<"s">>

TrashT == <<"t">>

\* A path that does not exist.
MissingM == <<"m">>

\* A path that is a regular file.
PlainF == <<"f">>

Cwd == <<".">>

NameA == <<"a">>

NameUpperA == <<"A">>

NameB == <<"b">>

NameD == <<"d">>

\* Names with a separator: join(root, name + '.bpmn') then lies in a
\* subdirectory of the root (r/n does not exist, r/c.txt is a regular file).
NameInMissing == <<"n", "/", "a">>

NameInFile == <<"c", ".", "t", "x", "t", "/", "a">>

TxtC == <<"c", ".", "t", "x", "t">>

Bpmn(name) == name \o BPMN_FILE_SUFFIX

\* openPath(pathspec, identity): each path with an identity of its own, so
\* that an open that fails names an identity the store does not hold
OpenPathInputs ==
    {<<RootR, "i1">>, <<RootS, "i2">>, <<MissingM, "i2">>, <<PlainF, "i1">>}

Diagram(name, uri, xml) == [name |-> name, uri |-> uri, xml |-> xml, id |-> Undefined]

\* As getDiagrams or getDiagramByName return them below r and s.
DiagramA == Diagram(NameA, join(RootR, Bpmn(NameA)), "x1")

DiagramUpperA == Diagram(NameUpperA, join(RootR, Bpmn(NameUpperA)), "x1")

DiagramOfS == Diagram(NameA, join(RootS, Bpmn(NameA)), "x1")

\* A new diagram of r: its file does not exist until it is saved.
DiagramB == Diagram(NameB, join(RootR, Bpmn(NameB)), "x2")

\* Diagrams whose uri lies below a path that does not exist, or a regular file.
DiagramMoved == Diagram(NameA, join(MissingM, Bpmn(NameA)), "x1")

DiagramBelowFile == Diagram(NameA, join(PlainF, Bpmn(NameA)), "x1")

\* A diagram whose name puts it in a subdirectory of r that does not exist.
DiagramInMissing == Diagram(NameInMissing, join(RootR, Bpmn(NameInMissing)), "x1")

\* A diagram whose uri is a directory.
DiagramD == Diagram(NameD, join(RootS, Bpmn(NameD)), "x1")

DiagramInputs ==
    { DiagramA, DiagramUpperA, DiagramOfS, DiagramB, DiagramMoved, DiagramBelowFile,
      DiagramInMissing, DiagramD }

\* saveDiagram(diagram) and saveDiagram(diagram, newPathSpec)
SaveDiagramInputs ==
    {<<d, Undefined>> : d \in DiagramInputs}
    \cup {<<DiagramA, p>> : p \in { join(RootR, Bpmn(NameB)), join(MissingM, Bpmn(NameA)),
                                    join(PlainF, Bpmn(NameA)) }}

\* saveSingleDiagram(diagramToSave, identity, pathToSave): a file that is
\* there, a uri that is a directory, a uri in a missing directory, a new path
SaveSingleDiagramInputs ==
    { <<DiagramA, Undefined>>, <<DiagramD, Undefined>>, <<DiagramMoved, Undefined>>,
      <<DiagramA, join(RootR, Bpmn(NameB))>> }

\* openSingleDiagram(fullPathToDiagram, identity): a diagram file, no file
OpenSingleDiagramInputs == {join(RootR, Bpmn(NameA)), join(MissingM, Bpmn(NameA))}

NameInputs == {NameA, NameUpperA, NameB}

\* renameDiagram(diagram, newName)
RenameInputs ==
    ({DiagramA, DiagramUpperA, DiagramOfS, DiagramB} \X NameInputs)
    \cup {<<DiagramA, NameInMissing>>, <<DiagramA, NameInFile>>}

DeleteInputs == {DiagramA, DiagramUpperA, DiagramOfS, DiagramB, DiagramD}

\* Longest solution saved by saveSolution.
MaxDiagrams == 2

SolutionDiagrams == {DiagramA, DiagramB, DiagramMoved, DiagramInMissing}

\* The solutions without a diagram twice
Solutions ==
    { s \in UNION {[1..n -> SolutionDiagrams] : n \in 0..MaxDiagrams} :
        \A i, j \in DOMAIN s : s[i] = s[j] => i = j }

\* saveSolution(solution) and saveSolution(solution, pathToSolution)
SaveSolutionInputs ==
    {<<s, Undefined>> : s \in Solutions}
    \cup {<<s, RootS>> : s \in {<<DiagramOfS>>, <<DiagramA>>, <<DiagramOfS, DiagramA>>}}
    \cup {<<(<<DiagramA>>), MissingM>>, <<(<<DiagramA>>), PlainF>>}

\* The filesystem the store is constructed on: r holds two diagrams whose
\* names differ in case only and a text file, s a diagram and a directory
\* named like a diagram, the trash t a diagram named a deleted earlier.
InitialFs ==
    (Cwd :> Dir) @@ (RootR :> Dir) @@ (RootS :> Dir) @@ (TrashT :> Dir)
    @@ (PlainF :> File("c0"))
    @@ (join(RootR, Bpmn(NameA)) :> File("c1"))
    @@ (join(RootR, Bpmn(NameUpperA)) :> File("c2"))
    @@ (join(RootR, TxtC) :> File("c3"))
    @@ (join(RootS, Bpmn(NameA)) :> File("c4"))
    @@ (join(RootS, Bpmn(NameD)) :> Dir)
    @@ (join(TrashT, Bpmn(NameA)) :> File("c5"))

\* The trash folder the constructor is given: a directory, a path that does
\* not exist, a regular file.  C has no trash folder.
TrashFolderInputs == {TrashT, MissingM, PlainF}

----------------------------------------------------------------------------
(* Calls and requests *)

Slots == {1, 2}

NoSnapshot == [fs |-> <<>>, basePath |-> Undefined, identity |-> "undefined"]

\* A slot no call was made in.
NoCall ==
    [ op |-> "none", diagrams |-> <<>>, path |-> Undefined, name |-> Undefined,
      ident |-> "undefined", status |-> "none", error |-> "", info |-> "",
      value |-> <<>>, files |-> <<>>, got |-> <<>>, target |-> Undefined,
      pre |-> NoSnapshot ]

\* A call as it starts: `pre` keeps the state it was made in.
NewCall(op, diagrams, path, name, ident) ==
    [ NoCall EXCEPT !.op = op, !.diagrams = diagrams, !.path = path, !.name = name,
                    !.ident = ident, !.status = "pending",
                    !.pre = [fs |-> fs, basePath |-> basePath, identity |-> identity] ]

Rejected(call, error, info) ==
    [call EXCEPT !.status = "rejected", !.error = error, !.info = info]

Resolved(call, value) == [call EXCEPT !.status = "resolved", !.value = value]

Request(slot, kind, path, to, data, idx) ==
    [slot |-> slot, kind |-> kind, path |-> path, to |-> to, data |-> data, idx |-> idx]

\* Nothing is in flight: every call has settled and every request completed.
Quiescent ==
    /\ pending = {}
    /\ \A c \in Slots : calls[c].status # "pending"

----------------------------------------------------------------------------
(* The class *)

\* _checkForDirectory: the error it throws, "" when it returns
checkForDirectory(f, directoryPath) ==
    IF ~existsSync(f, directoryPath) THEN "NotFound"
    ELSE IF ~isDirectory(f, directoryPath) THEN "BadRequest"
    ELSE ""

\* Mutant of checkWriteablity: the path itself is checked, not its directory.
checkWriteablityOfPath(f, filePath) == checkForDirectory(f, filePath)

\* _checkWriteablity
checkWriteablity(f, filePath) == checkForDirectory(f, dirname(filePath))

Init ==
    /\ variant \in {"A", "B", "C"}
    /\ trashFolder \in IF variant = "C" THEN {Undefined} ELSE TrashFolderInputs
    /\ basePath = Undefined
    /\ identity = "undefined"
    /\ fs = InitialFs
    /\ calls = [c \in Slots |-> NoCall]
    /\ pending = {}
    /\ nwrites = 0

\* Mutant of OpenPath: the identity is stored before the path is checked.
OpenPathIdentityFirst(c, pathspec, ident) ==
    LET call == NewCall("openPath", <<>>, pathspec, Undefined, ident)
        err == checkForDirectory(fs, pathspec)
    IN  /\ identity' = ident
        /\ IF err # ""
           THEN /\ calls' = [calls EXCEPT ![c] = Rejected(call, err, "")]
                /\ UNCHANGED basePath
           ELSE /\ basePath' = pathspec
                /\ calls' = [calls EXCEPT ![c] = Resolved(call, <<>>)]
        /\ UNCHANGED <<variant, trashFolder, fs, pending, nwrites>>

\* openPath(pathspec, identity)
OpenPath(c, pathspec, ident) ==
    LET call == NewCall("openPath", <<>>, pathspec, Undefined, ident)
        err == checkForDirectory(fs, pathspec)
    IN  /\ IF err # ""
           THEN /\ calls' = [calls EXCEPT ![c] = Rejected(call, err, "")]
                /\ UNCHANGED <<basePath, identity>>
           ELSE /\ basePath' = pathspec
                /\ identity' = ident
                /\ calls' = [calls EXCEPT ![c] = Resolved(call, <<>>)]
        /\ UNCHANGED <<variant, trashFolder, fs, pending, nwrites>>

\* All orders a directory listing may come in.
Listings(names) ==
    {l \in [1..Cardinality(names) -> names] : \A n \in names : \E i \in DOMAIN l : l[i] = n}

\* Mutant of DiagramNameOf: the suffix is not stripped.
DiagramNameOfWithSuffix(v, file) == file

\* The name getDiagrams gives the diagram of a directory entry:
\* path.basename(file, BPMN_FILE_SUFFIX) in A and B, file.substr(...) in C
DiagramNameOf(v, file) ==
    IF v = "C" THEN substrStrip(file) ELSE basename(file, BPMN_FILE_SUFFIX)

\* getDiagrams(), up to the readdir
GetDiagrams(c) ==
    LET call == NewCall("getDiagrams", <<>>, Undefined, Undefined, "undefined")
    IN  /\ IF basePath = Undefined
           THEN /\ calls' = [calls EXCEPT ![c] = Rejected(call, "TypeError", "")]
                /\ UNCHANGED pending
           ELSE /\ calls' = [calls EXCEPT ![c] = call]
                /\ pending' = pending \cup {Request(c, "readdir", basePath, Undefined, "", 0)}
        /\ UNCHANGED <<variant, trashFolder, basePath, identity, fs, nwrites>>

\* Mutant of ReadRoot: the files are read below the directory that was listed.
ListedRoot(io) == io.path

\* The directory the map callback of getDiagrams joins a listed file with:
\* this._basePath, evaluated when the listing has arrived
ReadRoot(io) == basePath

\* getDiagrams(), from the listing to the readFile of every '.bpmn' entry;
\* each path is joined with the _basePath of this moment
ReaddirDone(io) ==
    LET c == io.slot
        r == FsReaddir(fs, io.path)
    IN  /\ io.kind = "readdir"
        /\ IF r.err # ""
           THEN /\ calls' = [calls EXCEPT ![c] = Rejected(@, r.err, "")]
                /\ pending' = pending \ {io}
           ELSE \E filesInDirectory \in Listings(r.names) :
                  LET bpmnFiles ==
                          SelectSeq(filesInDirectory, LAMBDA file : endsWith(file, BPMN_FILE_SUFFIX))
                      reads == { Request(c, "readFile", join(ReadRoot(io), bpmnFiles[i]),
                                         Undefined, "", i) : i \in DOMAIN bpmnFiles }
                  IN  /\ pending' = (pending \ {io}) \cup reads
                      /\ calls' = [calls EXCEPT ![c] =
                                     IF bpmnFiles = <<>> THEN Resolved(@, <<>>)
                                     ELSE [@ EXCEPT !.files = bpmnFiles]]
        /\ UNCHANGED <<variant, trashFolder, basePath, identity, fs, nwrites>>

\* getDiagramByName(diagramName), up to the readFile
GetDiagramByName(c, diagramName) ==
    LET call == NewCall("getDiagramByName", <<>>, Undefined, diagramName, "undefined")
    IN  /\ IF basePath = Undefined
           THEN /\ calls' = [calls EXCEPT ![c] = Rejected(call, "TypeError", "")]
                /\ UNCHANGED pending
           ELSE /\ calls' = [calls EXCEPT ![c] = call]
                /\ pending' = pending \cup
                      {Request(c, "readFile", join(basePath, Bpmn(diagramName)), Undefined, "", 0)}
        /\ UNCHANGED <<variant, trashFolder, basePath, identity, fs, nwrites>>

\* The diagram getDiagrams builds from one file it read
ListedDiagram(v, file, fullPathToFile, xml) ==
    [name |-> DiagramNameOf(v, file), uri |-> fullPathToFile, xml |-> xml, id |-> Undefined]

\* Mutant of NamedDiagram: the id is left out.
NamedDiagramWithoutId(diagramName, fullPathToFile, xml) ==
    [name |-> diagramName, uri |-> fullPathToFile, xml |-> xml, id |-> Undefined]

\* The diagram getDiagramByName builds
NamedDiagram(diagramName, fullPathToFile, xml) ==
    [name |-> diagramName, uri |-> fullPathToFile, xml |-> xml, id |-> fullPathToFile]

\* openSingleDiagram(fullPathToDiagram, identity) of B, up to the readFile;
\* it uses neither the root nor the identity
OpenSingleDiagram(c, fullPathToDiagram) ==
    LET call == NewCall("openSingleDiagram", <<>>, fullPathToDiagram, Undefined, "undefined")
    IN  /\ variant = "B"
        /\ calls' = [calls EXCEPT ![c] = call]
        /\ pending' = pending \cup
              {Request(c, "readFile", fullPathToDiagram, Undefined, "", 0)}
        /\ UNCHANGED <<variant, trashFolder, basePath, identity, fs, nwrites>>

\* The diagram openSingleDiagram builds
SingleDiagram(fullPathToDiagram, xml) ==
    [ name |-> basename(fullPathToDiagram, BPMN_FILE_SUFFIX), uri |-> fullPathToDiagram,
      xml |-> xml, id |-> Undefined ]

\* A readFile completes: of getDiagrams (Promise.all: the first failure
\* rejects, the last success resolves), of openSingleDiagram, or of
\* getDiagramByName, also as the last step of renameDiagram
ReadFileDone(io) ==
    LET c == io.slot
        call == calls[c]
        r == FsReadFile(fs, io.path)
    IN  /\ io.kind = "readFile"
        /\ pending' = pending \ {io}
        /\ IF call.status # "pending" THEN UNCHANGED calls
           ELSE IF r.err # ""
           THEN calls' = [calls EXCEPT ![c] = Rejected(@, r.err, "")]
           ELSE IF call.op = "getDiagrams"
           THEN LET d == ListedDiagram(variant, call.files[io.idx], io.path, r.data)
                    got == [i \in DOMAIN call.got \cup {io.idx} |->
                               IF i = io.idx THEN d ELSE call.got[i]]
                IN  calls' = [calls EXCEPT ![c] =
                                 IF DOMAIN got = DOMAIN call.files
                                 THEN Resolved([@ EXCEPT !.got = got],
                                               [i \in DOMAIN call.files |-> got[i]])
                                 ELSE [@ EXCEPT !.got = got]]
           ELSE IF call.op = "openSingleDiagram"
           THEN calls' = [calls EXCEPT ![c] = Resolved(@, <<SingleDiagram(io.path, r.data)>>)]
           ELSE calls' = [calls EXCEPT ![c] =
                             Resolved(@, <<NamedDiagram(call.name, io.path, r.data)>>)]
        /\ UNCHANGED <<variant, trashFolder, basePath, identity, fs, nwrites>>

\* saveDiagram(diagramToSave, newPathSpec) up to the writeFile: the error it
\* throws ("" when it goes on to write), the microtask turn that throws it
\* (0: in the synchronous part, before the first await) and the path it
\* writes.  A has no check of the uri; B and C reject a changed uri.
SaveDiagramStart(v, root, f, diagramToSave, newPathSpec) ==
    LET newPathSpecWasSet == newPathSpec # Undefined
        checked(pathToWriteDiagram) ==
            [err |-> checkWriteablity(f, pathToWriteDiagram), turn |-> 2,
             path |-> pathToWriteDiagram]
    IN  IF v = "A"
        THEN checked(IF newPathSpecWasSet THEN newPathSpec ELSE diagramToSave.uri)
        ELSE IF newPathSpecWasSet THEN checked(newPathSpec)
        ELSE IF root = Undefined
        THEN [err |-> "TypeError", turn |-> 0, path |-> Undefined]
        ELSE IF join(root, Bpmn(diagramToSave.name)) # diagramToSave.uri
        THEN [err |-> "BadRequest", turn |-> 0, path |-> Undefined]
        ELSE checked(diagramToSave.uri)

\* saveDiagram(diagramToSave, newPathSpec), up to the writeFile
SaveDiagram(c, diagramToSave, newPathSpec) ==
    LET call == NewCall("saveDiagram", <<diagramToSave>>, newPathSpec, Undefined, "undefined")
        start == SaveDiagramStart(variant, basePath, fs, diagramToSave, newPathSpec)
    IN  /\ nwrites < MaxWrites
        /\ nwrites' = nwrites + 1
        /\ IF start.err # ""
           THEN /\ calls' = [calls EXCEPT ![c] = Rejected(call, start.err, "")]
                /\ UNCHANGED pending
           ELSE /\ calls' = [calls EXCEPT ![c] = [call EXCEPT !.target = start.path]]
                /\ pending' = pending \cup
                      {Request(c, "writeFile", start.path, Undefined, diagramToSave.xml, 1)}
        /\ UNCHANGED <<variant, trashFolder, basePath, identity, fs>>

\* saveSingleDiagram(diagramToSave, identity, pathToSave) of B.  The promise
\* of _writeFile is not awaited: the call returns diagramToSave as soon as
\* the write is issued, and the catch sees only a synchronous throw, which
\* the promisified writeFile does not make.  The write completes later, its
\* failure is a rejection nobody handles (WriteFileDone on a settled call).
SaveSingleDiagram(c, diagramToSave, pathToSave) ==
    LET call == NewCall("saveSingleDiagram", <<diagramToSave>>, pathToSave, Undefined, "undefined")
        newPathIsSet == pathToSave # Undefined
        pathToWrite == IF newPathIsSet THEN pathToSave ELSE diagramToSave.uri
    IN  /\ variant = "B"
        /\ nwrites < MaxWrites
        /\ nwrites' = nwrites + 1
        /\ IF checkWriteablity(fs, pathToWrite) # ""
           THEN /\ calls' = [calls EXCEPT ![c] =
                                Rejected(call, checkWriteablity(fs, pathToWrite), "")]
                /\ UNCHANGED pending
           ELSE /\ calls' = [calls EXCEPT ![c] =
                                Resolved([call EXCEPT !.target = pathToWrite], <<diagramToSave>>)]
                /\ pending' = pending \cup
                      {Request(c, "writeFile", pathToWrite, Undefined, diagramToSave.xml, 1)}
        /\ UNCHANGED <<variant, trashFolder, basePath, identity, fs>>

Min(S) == CHOOSE i \in S : \A j \in S : i <= j

\* Mutant of SolutionWrites: the diagrams are saved one after the other, so
\* that nothing is written after the first diagram that fails.
SolutionWritesInTurn(c, solution, start) ==
    { Request(c, "writeFile", start[i].path, Undefined, solution[i].xml, i) :
        i \in {j \in DOMAIN solution : \A k \in 1..j : start[k].err = ""} }

\* The writeFile requests of saveSolution: solution.diagrams.map calls
\* saveDiagram for every diagram before any of them is awaited, so every
\* diagram that passes its checks is written, whatever the others do.
SolutionWrites(c, solution, start) ==
    { Request(c, "writeFile", start[i].path, Undefined, solution[i].xml, i) :
        i \in {j \in DOMAIN solution : start[j].err = ""} }

\* Mutant of SolutionOpenError: the new root is taken over unchecked.
SolutionOpenUnchecked(f, pathToSolution) == ""

\* The error of the openPath(pathToSolution, this._identity) that
\* saveSolution awaits first when pathToSolution was given ("": none)
SolutionOpenError(f, pathToSolution) ==
    IF pathToSolution # Undefined THEN checkForDirectory(f, pathToSolution) ELSE ""

\* saveSolution(solution, pathToSolution): the openPath, then the synchronous
\* part of every saveDiagram (map) and the microtasks up to each writeFile.
\* Promise.all rejects with the rejection that comes first: one of turn 0 in
\* the order of the diagrams, else one of turn 2 in that order.  The writes
\* of the other diagrams are in flight by then: they complete in later turns
\* of the event loop, after the caller has seen the rejection.
SaveSolution(c, solution, pathToSolution) ==
    LET call == NewCall("saveSolution", solution, pathToSolution, Undefined, "undefined")
        newPathWasSet == pathToSolution # Undefined
        openErr == SolutionOpenError(fs, pathToSolution)
        root == IF newPathWasSet THEN pathToSolution ELSE basePath
        start == [i \in DOMAIN solution |->
                     SaveDiagramStart(variant, root, fs, solution[i], Undefined)]
        failed(t) == {i \in DOMAIN solution : start[i].err # "" /\ start[i].turn = t}
        first == IF failed(0) # {} THEN Min(failed(0))
                 ELSE IF failed(2) # {} THEN Min(failed(2))
                 ELSE 0
    IN  /\ nwrites < MaxWrites
        /\ nwrites' = nwrites + 1
        /\ IF openErr # ""
           THEN /\ calls' = [calls EXCEPT ![c] = Rejected(call, openErr, "")]
                /\ UNCHANGED <<basePath, pending>>
           ELSE /\ basePath' = root
                /\ pending' = pending \cup SolutionWrites(c, solution, start)
                /\ calls' = [calls EXCEPT ![c] =
                               IF first # 0 THEN Rejected(call, start[first].err, "")
                               ELSE IF solution = <<>> THEN Resolved(call, <<>>)
                               ELSE call]
        /\ UNCHANGED <<variant, trashFolder, identity, fs>>

\* A writeFile completes: a failure rejects the call with an
\* InternalServerError that carries it; the last success resolves the call
WriteFileDone(io) ==
    LET c == io.slot
        call == calls[c]
        r == FsWriteFile(fs, io.path, io.data)
    IN  /\ io.kind = "writeFile"
        /\ pending' = pending \ {io}
        /\ fs' = r.fs
        /\ IF call.status # "pending" THEN UNCHANGED calls
           ELSE IF r.err # ""
           THEN calls' = [calls EXCEPT ![c] = Rejected(@, "InternalServerError", r.err)]
           ELSE IF \E other \in pending \ {io} : other.slot = c
           THEN UNCHANGED calls
           ELSE calls' = [calls EXCEPT ![c] = Resolved(@, <<>>)]
        /\ UNCHANGED <<variant, trashFolder, basePath, identity, nwrites>>

\* _findUnusedFilename(desiredName) of A
RECURSIVE findUnusedFilenameFrom(_, _, _, _)
findUnusedFilenameFrom(f, desiredName, currentName, attempt) ==
    IF existsSync(f, currentName)
    THEN findUnusedFilenameFrom(f, desiredName, WithAttempt(desiredName, attempt), attempt + 1)
    ELSE currentName

findUnusedFilename(f, desiredName) == findUnusedFilenameFrom(f, desiredName, desiredName, 1)

\* The loop of deleteDiagram of B: each turn tests the name of the turn
\* before and moves on to the next one
RECURSIVE trashLoop(_, _, _, _, _)
trashLoop(f, orginalTargetFile, targetFile, fileAlreadyExists, attemptCount) ==
    IF fileAlreadyExists
    THEN trashLoop(f, orginalTargetFile, WithAttempt(orginalTargetFile, attemptCount),
                   existsSync(f, targetFile), attemptCount + 1)
    ELSE targetFile

\* The path in the trash deleteDiagram moves the diagram to
TrashTarget(v, f, trash, diagram) ==
    LET desiredName == join(trash, Bpmn(diagram.name))
    IN  IF v = "A" THEN findUnusedFilename(f, desiredName)
        ELSE trashLoop(f, desiredName, desiredName, existsSync(f, desiredName), 1)

\* Mutant of TrashCheckError: the error of the check is thrown as it is.
TrashCheckErrorRethrown(f, trash) == checkForDirectory(f, trash)

\* The try/catch around the check of the trash folder: whatever the check
\* throws, deleteDiagram throws a BadRequestError
TrashCheckError(f, trash) ==
    IF checkForDirectory(f, trash) # "" THEN "BadRequest" ELSE ""

\* deleteDiagram(diagram), up to the rename
DeleteDiagram(c, diagram) ==
    LET call == NewCall("deleteDiagram", <<diagram>>, Undefined, Undefined, "undefined")
        targetFile == TrashTarget(variant, fs, trashFolder, diagram)
    IN  /\ variant # "C"
        /\ nwrites < MaxWrites
        /\ nwrites' = nwrites + 1
        /\ IF TrashCheckError(fs, trashFolder) # ""
           THEN /\ calls' = [calls EXCEPT ![c] = Rejected(call, TrashCheckError(fs, trashFolder), "")]
                /\ UNCHANGED pending
           ELSE /\ calls' = [calls EXCEPT ![c] = [call EXCEPT !.target = targetFile]]
                /\ pending' = pending \cup {Request(c, "rename", diagram.uri, targetFile, "", 0)}
        /\ UNCHANGED <<variant, trashFolder, basePath, identity, fs>>

\* Whether renameDiagram refuses the new name: in A only when the names
\* differ in more than case, in B whenever the file exists
RenameRefused(v, f, diagram, newName, newDiagramUri) ==
    LET fileAlreadyExists == existsSync(f, newDiagramUri)
        diagramNameChanged == toLowerCase(newName) # toLowerCase(diagram.name)
    IN  IF v = "A" THEN fileAlreadyExists /\ diagramNameChanged
        ELSE fileAlreadyExists

\* renameDiagram(diagram, newName), up to the rename
RenameDiagram(c, diagram, newName) ==
    LET call == NewCall("renameDiagram", <<diagram>>, Undefined, newName, "undefined")
        newDiagramUri == join(basePath, Bpmn(newName))
        err == IF basePath = Undefined THEN "TypeError"
               ELSE IF checkWriteablity(fs, newDiagramUri) # ""
               THEN checkWriteablity(fs, newDiagramUri)
               ELSE IF RenameRefused(variant, fs, diagram, newName, newDiagramUri)
               THEN "BadRequest"
               ELSE ""
    IN  /\ variant # "C"
        /\ nwrites < MaxWrites
        /\ nwrites' = nwrites + 1
        /\ IF err # ""
           THEN /\ calls' = [calls EXCEPT ![c] = Rejected(call, err, "")]
                /\ UNCHANGED pending
           ELSE /\ calls' = [calls EXCEPT ![c] = [call EXCEPT !.target = newDiagramUri]]
                /\ pending' = pending \cup
                      {Request(c, "rename", diagram.uri, newDiagramUri, "", 0)}
        /\ UNCHANGED <<variant, trashFolder, basePath, identity, fs>>

\* A rename completes: deleteDiagram is done; renameDiagram goes on to
\* getDiagramByName(newName), which reads below the _basePath of this moment
RenameDone(io) ==
    LET c == io.slot
        call == calls[c]
        r == FsRename(fs, io.path, io.to)
    IN  /\ io.kind = "rename"
        /\ fs' = r.fs
        /\ IF r.err # ""
           THEN /\ calls' = [calls EXCEPT ![c] = Rejected(@, r.err, "")]
                /\ pending' = pending \ {io}
           ELSE IF call.op = "deleteDiagram"
           THEN /\ calls' = [calls EXCEPT ![c] = Resolved(@, <<>>)]
                /\ pending' = pending \ {io}
           ELSE /\ UNCHANGED calls
                /\ pending' = (pending \ {io}) \cup
                      {Request(c, "readFile", join(basePath, Bpmn(call.name)), Undefined, "", 0)}
        /\ UNCHANGED <<variant, trashFolder, basePath, identity, nwrites>>

Next ==
    \/ \E a \in OpenPathInputs : Quiescent /\ OpenPath(1, a[1], a[2])
    \/ Quiescent /\ GetDiagrams(1)
    \/ \E n \in NameInputs : Quiescent /\ GetDiagramByName(1, n)
    \/ \E a \in SaveDiagramInputs : Quiescent /\ SaveDiagram(1, a[1], a[2])
    \/ \E a \in SaveSolutionInputs : Quiescent /\ SaveSolution(1, a[1], a[2])
    \/ \E a \in SaveSingleDiagramInputs : Quiescent /\ SaveSingleDiagram(1, a[1], a[2])
    \/ \E p \in OpenSingleDiagramInputs : Quiescent /\ OpenSingleDiagram(1, p)
    \/ \E d \in DeleteInputs : Quiescent /\ DeleteDiagram(1, d)
    \/ \E a \in RenameInputs : Quiescent /\ RenameDiagram(1, a[1], a[2])
    \/ \E io \in pending : ReaddirDone(io)
    \/ \E io \in pending : ReadFileDone(io)
    \/ \E io \in pending : WriteFileDone(io)
    \/ \E io \in pending : RenameDone(io)

Spec == Init /\ [][Next]_vars

\* No call is in progress in slot c and no request of an earlier call of
\* the slot is still in flight.
Free(c) ==
    /\ calls[c].status # "pending"
    /\ \A io \in pending : io.slot # c

\* Two callers that do not wait for each other: each starts an openPath, a
\* getDiagrams or a deleteDiagram on the one store whenever its own last
\* call has settled, and the requests of both complete in any order.
NextConcurrent ==
    \/ \E c \in Slots : \E a \in OpenPathInputs : Free(c) /\ OpenPath(c, a[1], a[2])
    \/ \E c \in Slots : Free(c) /\ GetDiagrams(c)
    \/ \E c \in Slots : \E d \in DeleteInputs : Free(c) /\ DeleteDiagram(c, d)
    \/ \E io \in pending : ReaddirDone(io)
    \/ \E io \in pending : ReadFileDone(io)
    \/ \E io \in pending : RenameDone(io)

SpecConcurrent == Init /\ [][NextConcurrent]_vars

----------------------------------------------------------------------------
(* Claims.  A call's record keeps its arguments, how it settled and, in    *)
(* `pre`, the filesystem, root and identity it was made on; under Spec one *)
(* caller makes one call at a time, so between a call's start and the next *)
(* call only that call changes the filesystem.                             *)

\* The call of slot c has settled.
Settled(c) == calls[c].status \in {"resolved", "rejected"}

\* p is a directory of the filesystem f.
IsDir(f, p) == p \in DOMAIN f /\ f[p].kind = "dir"

\* p is a regular file of the filesystem f.
IsFile(f, p) == p \in DOMAIN f /\ f[p].kind = "file"

\* The call of slot c has no request in flight.
NothingInFlight(c) == \A io \in pending : io.slot # c

\* name has no path separator.
PlainName(name) == \A i \in DOMAIN name : name[i] # Sep

\* C1: saveDiagram(diagram) without newPath, on a diagram whose uri differs
\* from join(current root, diagram.name + '.bpmn'), fails with BadRequest and
\* performs no write: the filesystem is the same after the call as before it.
\* Version A (lines 79-97) has no such check and writes to diagram.uri.
C1_ChangedUriIsRejected ==
    \A c \in Slots :
        LET call == calls[c]
        IN  ( /\ call.op = "saveDiagram"
              /\ call.path = Undefined
              /\ call.pre.basePath # Undefined
              /\ call.diagrams[1].uri
                    # join(call.pre.basePath, call.diagrams[1].name \o <<".", "b", "p", "m", "n">>) )
            => /\ call.status = "rejected"
               /\ call.error = "BadRequest"
               /\ NothingInFlight(c)
               /\ fs = call.pre.fs

\* C2: renameDiagram(diagram, newName) fails with BadRequest whenever a file
\* exists at join(root, newName + '.bpmn'), and leaves the filesystem as it
\* was: it never overwrites a file, also when newName differs from
\* diagram.name in case only.  Version A (lines 132-136) lets a rename to a
\* name that differs in case only replace the file of that name.
C2_RenameNeverOverwrites ==
    \A c \in Slots :
        LET call == calls[c]
        IN  ( /\ call.op = "renameDiagram"
              /\ call.pre.basePath # Undefined
              /\ IsFile(call.pre.fs,
                        join(call.pre.basePath, call.name \o <<".", "b", "p", "m", "n">>)) )
            => /\ Settled(c) => call.status = "rejected" /\ call.error = "BadRequest"
               /\ fs = call.pre.fs

\* The lowest-numbered unused name for desired in the filesystem f: desired
\* itself, or desired.N for the least N >= 1 that is unused.
LowestUnused(f, desired) ==
    IF desired \notin DOMAIN f THEN desired
    ELSE LET free == {n \in 1..(Cardinality(DOMAIN f) + 1) :
                         (desired \o <<".">> \o NumStr(n)) \notin DOMAIN f}
         IN  desired \o <<".">> \o NumStr(CHOOSE n \in free : \A m \in free : n <= m)

\* C3: deleteDiagram on a diagram named x whose file exists, with a valid
\* trash root, moves the file to trash/x.bpmn if that name is unused, else to
\* trash/x.bpmn.N for the lowest N >= 1 that is unused; afterwards the source
\* is gone and the chosen path holds its content.  The loop of version B
\* (lines 354-359) ends one name after the first unused one.
C3_DeleteMovesToLowestUnused ==
    \A c \in Slots :
        LET call == calls[c]
            uri == call.diagrams[1].uri
            chosen == LowestUnused(call.pre.fs,
                                   join(trashFolder, call.diagrams[1].name \o <<".", "b", "p", "m", "n">>))
        IN  ( /\ call.op = "deleteDiagram"
              /\ IsDir(call.pre.fs, trashFolder)
              /\ IsFile(call.pre.fs, uri)
              /\ Settled(c) )
            => /\ call.status = "resolved"
               /\ uri \notin DOMAIN fs
               /\ IsFile(fs, chosen)
               /\ fs[chosen].content = call.pre.fs[uri].content
               /\ \A q \in DOMAIN fs : q # chosen => q \in DOMAIN call.pre.fs

\* C4: under one sequential caller, every file that was in the trash root
\* before a deleteDiagram call is still there with the same content after it.
\* Version B fails this because of the loop of C3: with a.bpmn and a.bpmn.2
\* in the trash it renames onto a.bpmn.2.
C4_DeleteKeepsTrashedFiles ==
    \A c \in Slots :
        LET call == calls[c]
        IN  call.op = "deleteDiagram"
            => \A q \in DOMAIN call.pre.fs :
                  (IsUnder(q, trashFolder) /\ q # call.diagrams[1].uri)
                  => q \in DOMAIN fs /\ fs[q] = call.pre.fs[q]

\* C5: renameDiagram(diagram, newName), when diagram.uri is a file, the root
\* is a directory, newName has no path separator and nothing exists at
\* join(root, newName + '.bpmn'), is not rejected, and once it has resolved
\* diagram.uri no longer exists, the new path is a file with the content the
\* source had, and the returned Diagram has name = newName, uri = id = the
\* new path and xml = that content.
C5_RenameMovesAndReturns ==
    \A c \in Slots :
        LET call == calls[c]
            uri == call.diagrams[1].uri
            dest == join(call.pre.basePath, Bpmn(call.name))
        IN  ( /\ call.op = "renameDiagram"
              /\ call.pre.basePath # Undefined
              /\ IsDir(call.pre.fs, call.pre.basePath)
              /\ PlainName(call.name)
              /\ dest \notin DOMAIN call.pre.fs
              /\ IsFile(call.pre.fs, uri) )
            => /\ call.status # "rejected"
               /\ call.status = "resolved"
                  => /\ uri \notin DOMAIN fs
                     /\ IsFile(fs, dest)
                     /\ fs[dest].content = call.pre.fs[uri].content
                     /\ call.value = << [ name |-> call.name, uri |-> dest, id |-> dest,
                                          xml |-> call.pre.fs[uri].content ] >>

\* A rename to a free name has resolved.
C5_Witness ==
    \E c \in Slots :
        /\ calls[c].op = "renameDiagram"
        /\ calls[c].status = "resolved"
        /\ calls[c].pre.basePath = RootR
        /\ calls[c].name = NameB
        /\ calls[c].diagrams[1].uri = join(RootR, Bpmn(NameA))
        /\ join(RootR, Bpmn(NameB)) \notin DOMAIN calls[c].pre.fs
        /\ IsFile(fs, join(RootR, Bpmn(NameB)))

\* C6: openPath(pathspec, identity) fails with NotFound when pathspec does
\* not exist and with BadRequest when it exists but is not a directory, and
\* then leaves root and identity as they were; when pathspec is a directory
\* it resolves with root = pathspec and identity = the identity passed.
C6_OpenPathAllOrNothing ==
    \A c \in Slots :
        LET call == calls[c]
        IN  call.op = "openPath"
            => /\ call.path \notin DOMAIN call.pre.fs
                  => /\ call.status = "rejected" /\ call.error = "NotFound"
                     /\ basePath = call.pre.basePath /\ identity = call.pre.identity
               /\ IsFile(call.pre.fs, call.path)
                  => /\ call.status = "rejected" /\ call.error = "BadRequest"
                     /\ basePath = call.pre.basePath /\ identity = call.pre.identity
               /\ IsDir(call.pre.fs, call.path)
                  => /\ call.status = "resolved"
                     /\ basePath = call.path /\ identity = call.ident

\* An open of a missing path has failed on a store that holds another root
\* and another identity than the ones passed.
C6_Witness ==
    \E c \in Slots :
        /\ calls[c].op = "openPath"
        /\ calls[c].error = "NotFound"
        /\ basePath = RootR
        /\ identity = "i1"
        /\ calls[c].ident = "i2"

\* The root saveSolution saves below: pathToSolution when it was given.
RootOf(call) == IF call.path # Undefined THEN call.path ELSE call.pre.basePath

\* The directory holding p is missing or is no directory.
BadParent(f, p) == ~IsDir(f, dirname(p))

\* The diagram d has the uri a read below root gives it, and this uri is no directory.
Savable(f, root, d) ==
    /\ root # Undefined
    /\ d.uri = join(root, Bpmn(d.name))
    /\ ~IsDir(f, d.uri)

\* The call of slot c is a saveSolution of two or more diagrams whose root
\* is valid, whose diagram i alone lies below a missing or non-directory
\* parent, and whose other diagrams are savable.
OneUnwritable(c, i) ==
    LET call == calls[c]
    IN  /\ call.op = "saveSolution"
        /\ call.path # Undefined => IsDir(call.pre.fs, call.path)
        /\ Len(call.diagrams) >= 2
        /\ i \in DOMAIN call.diagrams
        /\ BadParent(call.pre.fs, call.diagrams[i].uri)
        /\ \A j \in DOMAIN call.diagrams \ {i} :
              /\ ~BadParent(call.pre.fs, call.diagrams[j].uri)
              /\ Savable(call.pre.fs, RootOf(call), call.diagrams[j])

\* The file of diagram d holds d.xml.
Persisted(d) == IsFile(fs, d.uri) /\ fs[d.uri].content = d.xml

\* C7 as claimed: saveSolution with N diagrams of which exactly one targets
\* an unwritable parent directory fails overall, and the writes of the other
\* N-1 diagrams are on disk with their xml when the failure is observed.
C7_OthersPersistedWhenFailureObserved ==
    \A c \in Slots : \A i \in DOMAIN calls[c].diagrams :
        OneUnwritable(c, i)
        => /\ calls[c].status = "rejected"
           /\ \A j \in DOMAIN calls[c].diagrams \ {i} : Persisted(calls[c].diagrams[j])

\* C7 as amended: the call is rejected with the error of the directory check
\* (or of the uri check) as soon as that check fails; by then the write of
\* each of the other N-1 diagrams has been issued, and it is on disk with the
\* diagram's xml once it has completed.  Nothing is rolled back.
C7_OthersIssuedThenPersisted ==
    \A c \in Slots : \A i \in DOMAIN calls[c].diagrams :
        OneUnwritable(c, i)
        => /\ calls[c].status = "rejected"
           /\ calls[c].error \in {"NotFound", "BadRequest"}
           /\ \A j \in DOMAIN calls[c].diagrams \ {i} :
                 \/ \E io \in pending :
                       /\ io.slot = c /\ io.kind = "writeFile"
                       /\ io.path = calls[c].diagrams[j].uri
                       /\ io.data = calls[c].diagrams[j].xml
                 \/ Persisted(calls[c].diagrams[j])

\* A saveSolution with one unwritable diagram has failed and the write of
\* the other diagram has completed.
C7_Witness ==
    \E c \in Slots : \E i \in DOMAIN calls[c].diagrams :
        /\ OneUnwritable(c, i)
        /\ calls[c].status = "rejected"
        /\ pending = {}
        /\ \A j \in DOMAIN calls[c].diagrams \ {i} :
              /\ Persisted(calls[c].diagrams[j])
              /\ ~( /\ IsFile(calls[c].pre.fs, calls[c].diagrams[j].uri)
                    /\ calls[c].pre.fs[calls[c].diagrams[j].uri].content
                          = calls[c].diagrams[j].xml )

\* The entries directly inside the directory d whose name ends with '.bpmn'.
BpmnEntries(f, d) ==
    { q \in DOMAIN f :
        /\ Len(q) > Len(d) + 1 + 5
        /\ SubSeq(q, 1, Len(d) + 1) = d \o <<Sep>>
        /\ \A i \in (Len(d) + 2)..Len(q) : q[i] # Sep
        /\ SubSeq(q, Len(q) - 4, Len(q)) = <<".", "b", "p", "m", "n">> }

\* The diagram getDiagrams is to return for the entry q of the directory d.
DiagramOfEntry(f, d, q) ==
    [ name |-> SubSeq(q, Len(d) + 2, Len(q) - 5), uri |-> q, xml |-> f[q].content,
      id |-> Undefined ]

\* C8: when getDiagrams() resolves on a store opened on D, it returns exactly
\* one diagram for each entry directly inside D whose filename ends with
\* '.bpmn' and none for any other entry, each with name = the filename without
\* '.bpmn', uri = join(D, filename) and xml = the file's content.
C8_GetDiagramsReturnsTheBpmnEntries ==
    \A c \in Slots :
        LET call == calls[c]
            entries == BpmnEntries(call.pre.fs, call.pre.basePath)
        IN  (call.op = "getDiagrams" /\ call.status = "resolved")
            => /\ Len(call.value) = Cardinality(entries)
               /\ \A q \in entries :
                     \E i \in DOMAIN call.value :
                        call.value[i] = DiagramOfEntry(call.pre.fs, call.pre.basePath, q)
               /\ \A i \in DOMAIN call.value : call.value[i].uri \in entries

\* getDiagrams has returned the two diagrams of r, which also holds c.txt.
C8_Witness ==
    \E c \in Slots :
        /\ calls[c].op = "getDiagrams"
        /\ calls[c].status = "resolved"
        /\ calls[c].pre.basePath = RootR
        /\ Len(calls[c].value) >= 2
        /\ join(RootR, TxtC) \in DOMAIN calls[c].pre.fs
        /\ \E i \in DOMAIN calls[c].value : calls[c].value[i].name = NameUpperA

\* The path a single write operation is to write: newPath or the diagram's
\* uri for saveDiagram, join(root, newName + '.bpmn') for renameDiagram.
WriteTarget(call) ==
    IF call.op = "renameDiagram" THEN join(call.pre.basePath, Bpmn(call.name))
    ELSE IF call.path # Undefined THEN call.path
    ELSE call.diagrams[1].uri

\* The error the directory check gives for the parent of target.
ParentCheckError(f, target) ==
    IF dirname(target) \notin DOMAIN f THEN "NotFound"
    ELSE IF ~IsDir(f, dirname(target)) THEN "BadRequest"
    ELSE ""

\* Every entry of the filesystem lies in a directory.
WellFormed(f) == \A p \in DOMAIN f : IsDir(f, dirname(p))

UriCheckError(v, root, d) ==
    IF v = "A" THEN ""
    ELSE IF root = Undefined THEN "TypeError"
    ELSE IF join(root, Bpmn(d.name)) # d.uri THEN "BadRequest"
    ELSE ""

C10_BadTrashFolderIsBadRequest ==
    \A c \in Slots :
        LET call == calls[c]
        IN  (call.op = "deleteDiagram" /\ ~IsDir(call.pre.fs, trashFolder))
            => /\ call.status = "rejected"
               /\ call.error = "BadRequest"
               /\ NothingInFlight(c)
               /\ fs = call.pre.fs

\* A deleteDiagram of an existing diagram has failed on a store whose trash
\* folder does not exist, and the diagram's file is where it was.
C10_Witness ==
    \E c \in Slots :
        /\ calls[c].op = "deleteDiagram"
        /\ trashFolder = MissingM
        /\ MissingM \notin DOMAIN calls[c].pre.fs
        /\ calls[c].status = "rejected"
        /\ calls[c].error = "BadRequest"
        /\ IsFile(fs, calls[c].diagrams[1].uri)
        /\ fs[calls[c].diagrams[1].uri] = calls[c].pre.fs[calls[c].diagrams[1].uri]

\* C11: whenever the file write of a saveDiagram or saveSingleDiagram call
\* fails, the call never reports success, and once the write has completed
\* the caller has an InternalServerError whose additionalInformation is the
\* failure of the write.
C11_WriteFailureIsWrapped ==
    \A c \in Slots :
        LET call == calls[c]
        IN  ( /\ call.op \in {"saveDiagram", "saveSingleDiagram"}
              /\ call.target # Undefined
              /\ FsWriteFile(call.pre.fs, call.target, call.diagrams[1].xml).err # "" )
            => /\ call.status # "resolved"
               /\ NothingInFlight(c)
                  => /\ call.status = "rejected"
                     /\ call.error = "InternalServerError"
                     /\ call.info = FsWriteFile(call.pre.fs, call.target,
                                                call.diagrams[1].xml).err

\* C12: saveSolution(solution, newRoot) with a newRoot that does not exist
\* (that is no directory) fails with NotFound (BadRequest), issues and writes
\* no diagram file, and leaves the store's root and identity as they were.
C12_BadNewRootSavesNothing ==
    \A c \in Slots :
        LET call == calls[c]
        IN  ( /\ call.op = "saveSolution"
              /\ call.path # Undefined
              /\ ~IsDir(call.pre.fs, call.path) )
            => /\ call.status = "rejected"
               /\ call.error = IF call.path \in DOMAIN call.pre.fs THEN "BadRequest"
                               ELSE "NotFound"
               /\ NothingInFlight(c)
               /\ fs = call.pre.fs
               /\ basePath = call.pre.basePath
               /\ identity = call.pre.identity

\* A saveSolution into a root that does not exist has failed on a store
\* opened on r, with a diagram it could have written below r.
C12_Witness ==
    \E c \in Slots :
        /\ calls[c].op = "saveSolution"
        /\ calls[c].path = MissingM
        /\ calls[c].diagrams = <<DiagramA>>
        /\ calls[c].status = "rejected"
        /\ calls[c].error = "NotFound"
        /\ basePath = RootR
        /\ fs[DiagramA.uri].content # DiagramA.xml

\* The filesystem f with the file p holding data, everything else as it is.
WithFile(f, p, data) == (p :> File(data)) @@ f

\* C13: saveDiagram(d) without newPath, on a root that is a directory, with
\* d.uri = join(root, d.name + '.bpmn') that is no directory, does not fail;
\* when it has resolved the file at d.uri holds d.xml whatever it held before
\* and nothing else has changed, so that a second save of the same diagram
\* leaves the filesystem as the first one left it.
C13_SaveOverwritesAndIsIdempotent ==
    \A c \in Slots :
        LET call == calls[c]
            d == call.diagrams[1]
        IN  ( /\ call.op = "saveDiagram"
              /\ call.path = Undefined
              /\ call.pre.basePath # Undefined
              /\ IsDir(call.pre.fs, call.pre.basePath)
              /\ d.uri = join(call.pre.basePath, Bpmn(d.name))
              /\ IsDir(call.pre.fs, dirname(d.uri))
              /\ ~IsDir(call.pre.fs, d.uri) )
            => /\ call.status # "rejected"
               /\ call.status = "pending" => fs = call.pre.fs
               /\ call.status = "resolved"
                  => /\ fs = WithFile(call.pre.fs, d.uri, d.xml)
                     /\ (IsFile(call.pre.fs, d.uri) /\ call.pre.fs[d.uri].content = d.xml)
                           => fs = call.pre.fs

\* A second save of a diagram has resolved: the file held the diagram's xml,
\* which only a save writes, when the call was made, and it holds it now.
C13_Witness ==
    \E c \in Slots :
        /\ calls[c].op = "saveDiagram"
        /\ calls[c].path = Undefined
        /\ calls[c].status = "resolved"
        /\ calls[c].diagrams = <<DiagramA>>
        /\ calls[c].pre.basePath = RootR
        /\ InitialFs[DiagramA.uri].content # DiagramA.xml
        /\ calls[c].pre.fs[DiagramA.uri].content = DiagramA.xml
        /\ fs = calls[c].pre.fs

\* C14: when one of the '.bpmn' entries of the root cannot be read (here: it
\* is a directory), getDiagrams never resolves and returns no diagram,
\* however many of the other reads succeed, and it has failed once its
\* reads have completed.
C14_GetDiagramsFailsAsAWhole ==
    \A c \in Slots :
        LET call == calls[c]
        IN  ( /\ call.op = "getDiagrams"
              /\ \E q \in BpmnEntries(call.pre.fs, call.pre.basePath) : IsDir(call.pre.fs, q) )
            => /\ call.status # "resolved"
               /\ call.value = <<>>
               /\ NothingInFlight(c) => call.status = "rejected"

\* getDiagrams has failed on a root with an unreadable '.bpmn' entry after
\* the read of another entry had succeeded.
C14_Witness ==
    \E c \in Slots :
        /\ calls[c].op = "getDiagrams"
        /\ calls[c].pre.basePath = RootS
        /\ IsDir(calls[c].pre.fs, join(RootS, Bpmn(NameD)))
        /\ calls[c].status = "rejected"
        /\ calls[c].error = "EISDIR"
        /\ \E i \in DOMAIN calls[c].got : calls[c].got[i].name = NameA

\* The calls of the slots c1 and c2 are deleteDiagram calls for two files
\* that existed, of diagrams with one name, and both searched their trash
\* name on one state of the filesystem: neither rename had completed when
\* the other call looked for an unused name.
DeletesRace(c1, c2) ==
    /\ c1 # c2
    /\ calls[c1].op = "deleteDiagram" /\ calls[c2].op = "deleteDiagram"
    /\ calls[c1].diagrams[1].name = calls[c2].diagrams[1].name
    /\ calls[c1].diagrams[1].uri # calls[c2].diagrams[1].uri
    /\ calls[c1].pre.fs = calls[c2].pre.fs
    /\ IsDir(calls[c1].pre.fs, trashFolder)
    /\ IsFile(calls[c1].pre.fs, calls[c1].diagrams[1].uri)
    /\ IsFile(calls[c1].pre.fs, calls[c2].diagrams[1].uri)

\* The entries of the filesystem f below the trash folder.
Trashed(f) == {q \in DOMAIN f : IsUnder(q, trashFolder)}

\* C15: two deleteDiagram calls in flight together, for two files of
\* diagrams with the same name, pick one and the same trash path; both
\* calls succeed, and when both have, both files are gone from their roots,
\* the trash holds one entry more than before, with the content of one of the
\* two files: the other trashed file was overwritten.
C15_ConcurrentDeletesCollide ==
    \A c1, c2 \in Slots :
        DeletesRace(c1, c2)
        => LET pre == calls[c1].pre.fs
               uri1 == calls[c1].diagrams[1].uri
               uri2 == calls[c2].diagrams[1].uri
               target == calls[c1].target
           IN  /\ calls[c1].target = calls[c2].target
               /\ calls[c1].status # "rejected"
               /\ (calls[c1].status = "resolved" /\ calls[c2].status = "resolved")
                  => /\ uri1 \notin DOMAIN fs /\ uri2 \notin DOMAIN fs
                     /\ Trashed(fs) = Trashed(pre) \cup {target}
                     /\ target \notin Trashed(pre)
                     /\ fs[target].content \in {pre[uri1].content, pre[uri2].content}
                     /\ \A q \in Trashed(pre) : fs[q] = pre[q]

\* Two racing deletes have both resolved: r/a.bpmn and s/a.bpmn are gone and
\* the trash holds one new file.
C15_Witness ==
    \E c1, c2 \in Slots :
        /\ DeletesRace(c1, c2)
        /\ calls[c1].status = "resolved" /\ calls[c2].status = "resolved"
        /\ calls[c1].target = calls[c2].target
        /\ pending = {}
        /\ Cardinality(Trashed(fs)) = Cardinality(Trashed(calls[c1].pre.fs)) + 1
        /\ calls[c1].pre.fs[calls[c1].diagrams[1].uri].content
              # calls[c1].pre.fs[calls[c2].diagrams[1].uri].content

\* C16: saveSolution(solution, newRoot) with a newRoot that is a directory
\* leaves the store's root at newRoot however the saves go, and a diagram of
\* the solution whose uri is not join(newRoot, name + '.bpmn') makes the call
\* fail with BadRequest and is not written: neither is a write of it issued
\* nor does its file change.
C16_NewRootIsKeptAndForeignUriRejected ==
    \A c \in Slots :
        LET call == calls[c]
        IN  ( /\ call.op = "saveSolution"
              /\ call.path # Undefined
              /\ IsDir(call.pre.fs, call.path) )
            => /\ basePath = call.path
               /\ \A i \in DOMAIN call.diagrams :
                     call.diagrams[i].uri # join(call.path, Bpmn(call.diagrams[i].name))
                     => /\ call.status = "rejected"
                        /\ call.error = "BadRequest"
                        /\ \A io \in pending :
                              io.slot = c => io.path # call.diagrams[i].uri
                        /\ call.diagrams[i].uri \in DOMAIN call.pre.fs
                              => fs[call.diagrams[i].uri] = call.pre.fs[call.diagrams[i].uri]

\* The step starts getDiagramByName(d.name) in slot c right after a
\* saveDiagram(d) without newPath has succeeded there.
ReadsBackAfterSave(c) ==
    /\ calls[c].op = "saveDiagram"
    /\ calls[c].path = Undefined
    /\ calls[c].status = "resolved"
    /\ calls'[c].op = "getDiagramByName"
    /\ calls'[c].name = calls[c].diagrams[1].name
    /\ calls'[c] # calls[c]

\* The step completes the readFile of a getDiagramByName call of slot c.
ReadBackCompletes(c) ==
    /\ calls[c].op = "getDiagramByName"
    /\ calls[c].status = "pending"
    /\ calls'[c].status # "pending"

\* C17: a getDiagramByName(d.name) that follows a successful saveDiagram(d)
\* without newPath reads the file at d.uri, which holds d.xml, and a
\* getDiagramByName that reads a file returns its content as xml and its
\* path as uri and id: the round trip returns xml = d.xml, uri = id = d.uri.
C17_SaveThenReadRoundTrip ==
    [][ \A c \in Slots :
          /\ ReadsBackAfterSave(c)
             => LET d == calls[c].diagrams[1]
                IN  /\ calls'[c].status = "pending"
                    /\ \E io \in pending' :
                          /\ io.slot = c /\ io.kind = "readFile"
                          /\ io.path = d.uri
                    /\ IsFile(fs, d.uri)
                    /\ fs[d.uri].content = d.xml
                    /\ d.uri = join(basePath, Bpmn(d.name))
          /\ ReadBackCompletes(c)
             => \A io \in pending \ pending' :
                   IsFile(fs, io.path)
                   => /\ calls'[c].status = "resolved"
                      /\ calls'[c].value =
                            << [ name |-> calls[c].name, uri |-> io.path, id |-> io.path,
                                 xml |-> fs[io.path].content ] >>
      ]_vars

\* C18 as claimed: every diagram one getDiagrams call returns has
\* uri = join(R, filename) and xml = the content of that file, for the root R
\* the call listed, also when an openPath completes while the call is in
\* flight.
C18_ListedAndReadBelowOneRoot ==
    \A c \in Slots :
        LET call == calls[c]
        IN  (call.op = "getDiagrams" /\ call.status = "resolved")
            => \A i \in DOMAIN call.value :
                  /\ call.value[i].uri = join(call.pre.basePath, call.files[i])
                  /\ IsFile(call.pre.fs, call.value[i].uri)
                  /\ call.value[i].xml = call.pre.fs[call.value[i].uri].content

\* The step completes the listing of the getDiagrams call of slot c.
ListingCompletes(c) ==
    /\ calls[c].op = "getDiagrams"
    /\ calls[c].status = "pending"
    /\ \E io \in pending \ pending' : io.slot = c /\ io.kind = "readdir"

\* The step completes a read of the getDiagrams call of slot c.
ListedReadCompletes(c) ==
    /\ calls[c].op = "getDiagrams"
    /\ calls[c].status = "pending"
    /\ \E io \in pending \ pending' : io.slot = c /\ io.kind = "readFile"

\* C18 as amended: the names a getDiagrams call reads are the '.bpmn' names
\* of the directory R it listed, the root when the call was made; each is
\* read at join(R2, filename) for the single root R2 the store holds when the
\* listing completes, and each returned diagram has that path as uri and the
\* content read there as xml.  R2 is not R when an openPath completed in
\* between.
C18_ReadBelowRootAtListing ==
    [][ \A c \in Slots :
          /\ ListingCompletes(c)
             => /\ \A io \in pending \ pending' :
                      /\ io.path = calls[c].pre.basePath
                      /\ \A i \in DOMAIN calls'[c].files :
                            /\ endsWith(calls'[c].files[i], BPMN_FILE_SUFFIX)
                            /\ join(io.path, calls'[c].files[i]) \in DOMAIN fs
                /\ \A i \in DOMAIN calls'[c].files :
                      \E rd \in pending' \ pending :
                         /\ rd.slot = c /\ rd.kind = "readFile" /\ rd.idx = i
                         /\ rd.path = join(basePath, calls'[c].files[i])
                /\ \A rd \in pending' \ pending : rd.idx \in DOMAIN calls'[c].files
          /\ ListedReadCompletes(c)
             => /\ \A io \in pending \ pending' :
                      io.idx \in DOMAIN calls'[c].got
                      => /\ calls'[c].got[io.idx].uri = io.path
                         /\ calls'[c].got[io.idx].name
                               = SubSeq(calls[c].files[io.idx], 1,
                                        Len(calls[c].files[io.idx]) - 5)
                         /\ IsFile(fs, io.path)
                         /\ calls'[c].got[io.idx].xml = fs[io.path].content
                /\ \A i \in DOMAIN calls[c].got : calls'[c].got[i] = calls[c].got[i]
                /\ calls'[c].status = "resolved"
                   => /\ DOMAIN calls'[c].value = DOMAIN calls[c].files
                      /\ \A i \in DOMAIN calls'[c].value :
                            calls'[c].value[i] = calls'[c].got[i]
      ]_vars

\* A getDiagrams call made on root r has returned a diagram read below s:
\* an openPath(s) completed while the listing of r was in flight.
C18_Witness ==
    \E c \in Slots :
        /\ calls[c].op = "getDiagrams"
        /\ calls[c].status = "resolved"
        /\ calls[c].pre.basePath = RootR
        /\ calls[c].value # <<>>
        /\ \A i \in DOMAIN calls[c].value :
              /\ calls[c].value[i].uri = join(RootS, calls[c].files[i])
              /\ join(RootR, calls[c].files[i]) \in DOMAIN calls[c].pre.fs

====
